---- MODULE Spec2Model ----
(***************************************************************************)
(* One conversational turn of the Furhat orchestrator                      *)
(* (src/plan/orchestrator.py) driving two ChatGPTSentenceStreamer bridges   *)
(* (src/main.py).                                                          *)
(*                                                                         *)
(* Text is a sequence of tokens; a token is a word, a punctuation mark or  *)
(* the blank " ".  f"{a} {b}" and " ".join concatenate token sequences.    *)
(* Time is counted in units of THINKING_PAUSE_SECONDS (0.5 s).             *)
(***************************************************************************)
EXTENDS Integers, Sequences, FiniteSets, TLC

VARIABLES
    rpc,                    \* position of Orchestrator.run (the main task)
    rexc,                   \* what run raised to its caller ("none" if nothing)
    decision,               \* self.decision
    furhat_client,          \* TRUE iff self.furhat_client is not None
    thinking_window_done,   \* asyncio.Event: is it set
    thinking_mode,          \* BehaviorGenerator._thinking_mode
    current_answer_text,    \* self.current_answer_text
    tpc,                    \* position of the _relay_thinking task
    texc,                   \* exception the thinking task ended with
    deadline, emitted, fallback_idx, wake,      \* locals of _relay_thinking
    apc,                    \* position of _relay_answer
    aexc,                   \* exception _relay_answer raised
    first_clause, prefix, gesture_description, answer_parts, clause,
    prod,                   \* producer thread of each streamer
    queue,                  \* asyncio.Queue of each stream() call
    produced,               \* clauses each producer has pushed
    word_count,             \* reasoning_model.word_count
    now,                    \* loop.time()
    events,                 \* output events, actuation calls and barrier operations so far
    seg_pc,                 \* position of one _generate_clauses run on its own
    seg_text, seg_n,        \* the fragments _token_stream has yielded so far, concatenated, and their number
    seg_buffer,             \* buffer
    seg_clauses,            \* the clauses yielded so far
    seg_word_count,         \* self.word_count of that run
    res_pc,                 \* position of one resolve_confidence call on its own
    res_hint, res_wc,       \* its arguments
    res_out,                \* its result
    leg_rpc,                \* main.Orchestrator (the legacy orchestrator): position of run
    leg_stop,               \* self.stop_thinking
    leg_tpc, leg_emitted,   \* its _relay_thinking: position, emitted
    leg_apc, leg_first, leg_gesture,   \* its _relay_answer: position, first_clause, gesture
    leg_prod, leg_queue, leg_produced, \* its two streams
    leg_events              \* the lines it has printed

vars == <<rpc, rexc, decision, furhat_client, thinking_window_done, thinking_mode,
          current_answer_text, tpc, texc, deadline, emitted, fallback_idx, wake,
          apc, aexc, first_clause, prefix, gesture_description, answer_parts, clause,
          prod, queue, produced, word_count, now, events,
          seg_pc, seg_text, seg_n, seg_buffer, seg_clauses, seg_word_count,
          res_pc, res_hint, res_wc, res_out,
          leg_rpc, leg_stop, leg_tpc, leg_emitted, leg_apc, leg_first, leg_gesture,
          leg_prod, leg_queue, leg_produced, leg_events>>

turnVars == <<rpc, rexc, decision, furhat_client, thinking_window_done, thinking_mode,
              current_answer_text, tpc, texc, deadline, emitted, fallback_idx, wake,
              apc, aexc, first_clause, prefix, gesture_description, answer_parts, clause,
              prod, queue, produced, word_count, now, events>>
segVars  == <<seg_pc, seg_text, seg_n, seg_buffer, seg_clauses, seg_word_count>>
resVars  == <<res_pc, res_hint, res_wc, res_out>>
legVars  == <<leg_rpc, leg_stop, leg_tpc, leg_emitted, leg_apc, leg_first, leg_gesture,
              leg_prod, leg_queue, leg_produced, leg_events>>
fnVars   == <<segVars, resVars, legVars>>

runVars    == <<rpc, rexc, decision, current_answer_text>>
thinkVars  == <<tpc, texc, deadline, emitted, fallback_idx, wake>>
answerVars == <<apc, aexc, first_clause, prefix, gesture_description, answer_parts, clause>>
streamVars == <<prod, queue, produced, word_count>>

----------------------------------------------------------------------------
(* Bounds *)

MaxClauses == 2     \* clauses a producer pushes before its source ends or fails
MaxTime    == 22    \* the clock is followed up to this value

(* Program constants *)

MAX_THINKING_CUES         == 12
THINKING_DURATION_SECONDS == 20     \* 10.0 s, in units of 0.5 s
THINKING_PAUSE_SECONDS    == 1      \* 0.5 s,  in units of 0.5 s

THINKING_FALLBACK_LINES ==
    << <<"Let", "me", "think", "this", "through", ".">>,
       <<"I'm", "weighing", "a", "couple", "of", "options", ".">>,
       <<"Checking", "what", "I", "already", "know", ".">>,
       <<"Almost", "ready", "with", "an", "answer", ".">>,
       <<"Considering", "how", "this", "fits", "your", "question", ".">> >>

Tiers == {"low", "medium", "high"}

\* (verbal prefix, base gesture, gesture expression, LED colour)
CONFIDENCE_BEHAVIORS ==
    [t \in Tiers |->
        CASE t = "low"    -> << <<"I'm", "not", "entirely", "sure", ",", "but">>, "slight head shake", "Oh", "yellow" >>
          [] t = "medium" -> << <<"Let", "me", "think">>, "look straight", "Thoughtful", "blue" >>
          [] t = "high"   -> << <<"I'm", "confident", "that">>, "nod head", "BigSmile", "green" >>]

APOLOGY == <<"I'm", "sorry", ",", "I", "can't", "provide", "an", "answer", "at", "the", "moment", ".">>

----------------------------------------------------------------------------
(* Inputs *)

NoHint == "None"
Hints  == {NoHint, "low", "high", " High ", "certain"}

Answers == { <<>>, <<" ">>, <<"Paris", "is", "the", "capital", ".">> }

\* the plans controller.decide() returns in the model
Decisions ==
    [need_thinking : {FALSE}, confidence : Hints, answer : Answers]
      \cup [need_thinking : {TRUE}, confidence : {NoHint, " High "}, answer : {<<>>}]

NoDecision == [need_thinking |-> FALSE, confidence |-> NoHint, answer |-> <<>>]

Streams == {"thinking", "reasoning"}

\* the clauses each stream delivers, in this order, as far as its source gets;
\* the thinking stream mixes phrases and punctuation-only clauses
StreamClauses ==
    [s \in Streams |->
        IF s = "thinking"
        THEN << <<"Comparing", "options", ".">>, <<".", ".", ".">>, <<"Almost", "there", "!">>, <<"?">> >>
        ELSE << <<"Take", "the", "train", ".">>, <<"It", "is", "faster", ".">>, <<"Enjoy", "!">>, <<"Bye", ".">> >>]

\* self.word_count when the k-th clause of the answer stream is pushed
WordCountAt == <<10, 40, 70, 100>>

\* items of the queue: a clause, the captured Exception, the final None
ClauseItem(c) == [kind |-> "clause", text |-> c]
ExcItem       == [kind |-> "exc",    text |-> <<>>]
NoneItem      == [kind |-> "none",   text |-> <<>>]

----------------------------------------------------------------------------
(* Text helpers *)

RECURSIVE LStrip(_, _)
LStrip(s, chars) ==
    IF s # <<>> /\ Head(s) \in chars THEN LStrip(Tail(s), chars) ELSE s

RECURSIVE RStrip(_, _)
RStrip(s, chars) ==
    IF s # <<>> /\ s[Len(s)] \in chars THEN RStrip(SubSeq(s, 1, Len(s) - 1), chars) ELSE s

\* str.strip(chars)
StripChars(s, chars) == RStrip(LStrip(s, chars), chars)

\* str.strip()
Strip(s) == StripChars(s, {" "})

\* f"{a} {b}"
Spaced(a, b) == a \o <<" ">> \o b

RECURSIVE JoinSpaced(_)
\* " ".join(parts)
JoinSpaced(parts) ==
    IF parts = <<>> THEN <<>>
    ELSE IF Len(parts) = 1 THEN parts[1]
    ELSE Spaced(parts[1], JoinSpaced(Tail(parts)))

\* hint.strip().lower()
StripLower(h) == IF h = " High " THEN "high" ELSE h

\* every clause passes the filter
_is_meaningful_thinking_cue_Always(text) == TRUE

\* text.strip().strip(".!?\u2026"); the token "..." stands for the ellipsis character
_is_meaningful_thinking_cue(text) ==
    StripChars(Strip(text), {".", "!", "?", "..."}) # <<>>

----------------------------------------------------------------------------
(* Confidence *)

get_confidence_behavior(confidence) ==
    LET c    == IF confidence \in DOMAIN CONFIDENCE_BEHAVIORS THEN confidence ELSE "medium"
        full == CONFIDENCE_BEHAVIORS[c]
    IN  <<full[1], full[2]>>

\* the thresholds are taken inclusive
_estimate_confidence_from_words_Inclusive(wc) ==
    IF wc <= 25 THEN "low" ELSE IF wc <= 60 THEN "medium" ELSE "high"

_estimate_confidence_from_words(wc) ==
    IF wc < 25 THEN "low" ELSE IF wc < 60 THEN "medium" ELSE "high"

\* the hint is ignored
resolve_confidence_WordsOnly(hint, wc) == _estimate_confidence_from_words(wc)

resolve_confidence(hint, wc) ==
    IF hint \notin {NoHint, ""} /\ StripLower(hint) \in DOMAIN CONFIDENCE_BEHAVIORS
    THEN StripLower(hint)
    ELSE _estimate_confidence_from_words(wc)

----------------------------------------------------------------------------
(* Events *)

Event(src, kind, text, ok) == [src |-> src, kind |-> kind, text |-> text, ok |-> ok]

\* outcomes of one request_speak_text call: it returns (TRUE) or raises (FALSE)
SpeakOutcomes == IF furhat_client THEN BOOLEAN ELSE {TRUE}

\* the text is sent twice
Speak_Twice(src, text, ok) ==
    IF furhat_client THEN <<Event(src, "speak", text, TRUE), Event(src, "speak", text, ok)>> ELSE <<>>

\* if self.furhat_client: await self.furhat_client.request_speak_text(text)
Speak(src, text, ok) ==
    IF furhat_client THEN <<Event(src, "speak", text, ok)>> ELSE <<>>

\* emit_line(text, index): the printed line, then the speak call;
\* perform_thinking_behavior swallows every exception and changes no state
emit_line(kind, text, ok) ==
    <<Event("thinking", kind, text, TRUE)>> \o Speak("thinking", text, ok)

----------------------------------------------------------------------------
\* no segmenter and no resolver call is run on its own during a turn
SegIdle ==
    /\ seg_pc = "idle"
    /\ seg_text = <<>>
    /\ seg_n = 0
    /\ seg_buffer = <<>>
    /\ seg_clauses = <<>>
    /\ seg_word_count = 0

ResIdle ==
    /\ res_pc = "idle"
    /\ res_hint = NoHint
    /\ res_wc = 0
    /\ res_out = "none"

\* no legacy orchestrator has been constructed
LegIdle ==
    /\ leg_rpc = "idle"
    /\ leg_stop = FALSE
    /\ leg_tpc = "idle"
    /\ leg_emitted = 0
    /\ leg_apc = "idle"
    /\ leg_first = TRUE
    /\ leg_gesture = ""
    /\ leg_prod = [s \in Streams |-> "idle"]
    /\ leg_queue = [s \in Streams |-> <<>>]
    /\ leg_produced = [s \in Streams |-> 0]
    /\ leg_events = <<>>

\* the orchestrator after __init__, before run
TurnInit ==
    /\ rpc = "decide"
    /\ rexc = "none"
    /\ decision = NoDecision
    /\ furhat_client \in BOOLEAN
    /\ thinking_window_done = FALSE
    /\ thinking_mode = FALSE
    /\ current_answer_text = <<>>
    /\ tpc = "idle"
    /\ texc = "none"
    /\ deadline = 0
    /\ emitted = 0
    /\ fallback_idx = 0
    /\ wake = 0
    /\ apc = "idle"
    /\ aexc = "none"
    /\ first_clause = TRUE
    /\ prefix = <<>>
    /\ gesture_description = ""
    /\ answer_parts = <<>>
    /\ clause = <<>>
    /\ prod = [s \in Streams |-> "idle"]
    /\ queue = [s \in Streams |-> <<>>]
    /\ produced = [s \in Streams |-> 0]
    /\ word_count = 0
    /\ now = 0
    /\ events = <<>>

Init ==
    /\ TurnInit
    /\ SegIdle
    /\ ResIdle
    /\ LegIdle

----------------------------------------------------------------------------
(* Orchestrator.run *)

\* the ways controller.decide() raises: requests raises (connection, timeout,
\* raise_for_status), or _parse_json raises RuntimeError on invalid JSON
DecideFailures == {"transport", "invalid_json"}

\* the exception is caught and the request made again
DecideFails_Retry ==
    /\ rpc = "decide"
    /\ rpc' = "decide"
    /\ rexc' = "decision"
    /\ \E why \in DecideFailures :
         events' = events \o <<Event("run", "decide", <<why>>, FALSE)>>
    /\ UNCHANGED <<decision, furhat_client, thinking_window_done, thinking_mode,
                   current_answer_text, thinkVars, answerVars, streamVars, now>>
    /\ UNCHANGED fnVars

\* controller.decide() raises, and so does run, at line 64
DecideFails ==
    /\ rpc = "decide"
    /\ rpc' = "raised"
    /\ rexc' = "decision"
    /\ \E why \in DecideFailures :
         events' = events \o <<Event("run", "decide", <<why>>, FALSE)>>
    /\ UNCHANGED <<decision, furhat_client, thinking_window_done, thinking_mode,
                   current_answer_text, thinkVars, answerVars, streamVars, now>>
    /\ UNCHANGED fnVars

\* run up to its first suspension point
Decide ==
    /\ rpc = "decide"
    /\ \E d \in Decisions :
         /\ decision' = d
         /\ IF ~d.need_thinking
            THEN /\ thinking_window_done' = TRUE
                 /\ events' = events \o <<Event("run", "decide", <<>>, TRUE),
                                          Event("run", "barrier_clear", <<>>, TRUE),
                                          Event("run", "barrier_set", <<>>, TRUE)>>
                 /\ rpc' = "direct"
                 /\ UNCHANGED <<thinking_mode, tpc, apc, prod>>
            ELSE /\ thinking_window_done' = FALSE
                 /\ events' = events \o <<Event("run", "decide", <<>>, TRUE),
                                          Event("run", "barrier_clear", <<>>, TRUE)>>
                 /\ thinking_mode' = TRUE
                 /\ tpc' = "start"                 \* create_task(_relay_thinking)
                 /\ rpc' = "answer"                \* await _relay_answer
                 /\ apc' = "get"
                 /\ prod' = [prod EXCEPT !["reasoning"] = "running"]
    /\ UNCHANGED <<rexc, furhat_client, current_answer_text, texc, deadline, emitted,
                   fallback_idx, wake, aexc, first_clause, prefix, gesture_description,
                   answer_parts, clause, queue, produced, word_count, now>>
    /\ UNCHANGED fnVars

\* the return of line 73 is missing: run goes on into the thinking branch
AfterDirect_FallsThrough(ok) == IF ok THEN "answer" ELSE "raised"

\* lines 72-73: await self._respond_directly(...); return -- or the exception leaves run
AfterDirect(ok) == IF ok THEN "done" ELSE "raised"

_respond_directly ==
    /\ rpc = "direct"
    /\ LET stripped    == Strip(decision.answer)
           answer      == IF stripped = <<>> THEN APOLOGY ELSE stripped
           hint        == decision.confidence
           confidence  == IF hint \in DOMAIN CONFIDENCE_BEHAVIORS THEN hint ELSE "medium"
           behavior    == get_confidence_behavior(confidence)
           full_answer == Strip(Spaced(behavior[1], answer))
           printed     == <<Event("direct", "handoff", <<confidence, behavior[2]>>, TRUE),
                            Event("direct", "clause", full_answer, TRUE)>>
       IN  \E ok \in SpeakOutcomes :
             /\ events' = events \o printed \o Speak("direct", full_answer, ok)
             /\ rpc' = AfterDirect(ok)
             /\ IF ok
                THEN /\ current_answer_text' = full_answer
                     /\ rexc' = rexc
                ELSE /\ current_answer_text' = current_answer_text
                     /\ rexc' = "actuation"
    /\ UNCHANGED <<decision, furhat_client, thinking_window_done, thinking_mode,
                   thinkVars, answerVars, streamVars, now>>
    /\ UNCHANGED fnVars

\* the thinking task is not awaited
JoinReady_NoAwait == TRUE

\* the join completes only when the thinking task ended without an exception
JoinReady_OnlyDone == tpc = "done"

\* finally: await thinking_task
JoinReady == tpc \in {"done", "failed"}

\* the thinking task's exception is dropped
JoinOutcome_AnswerOnly == aexc

\* what run raises once the thinking task is awaited
JoinOutcome == IF texc # "none" THEN texc ELSE aexc

AwaitThinkingTask ==
    /\ rpc = "join"
    /\ JoinReady
    /\ rexc' = JoinOutcome
    /\ rpc' = IF JoinOutcome = "none" THEN "done" ELSE "raised"
    /\ UNCHANGED <<decision, furhat_client, thinking_window_done, thinking_mode,
                   current_answer_text, thinkVars, answerVars, streamVars, now, events>>
    /\ UNCHANGED fnVars

----------------------------------------------------------------------------
(* Orchestrator._relay_thinking *)

\* the cap is forgotten: only the deadline ends the window
WindowOver_NoCap(t, e) == t >= deadline

\* loop.time() >= deadline or emitted >= MAX_THINKING_CUES
WindowOver(t, e) == t >= deadline \/ e >= MAX_THINKING_CUES

\* the flag is left as it is when the relay ends
ModeAfterRelay_Kept == thinking_mode

\* line 155: self.behavior_generator.set_thinking_mode(False)
ModeAfterRelay == FALSE

\* no finally: the barrier is set after the loops only, not when an exception escapes
RelayFinally_NoFinally(evs, exc) ==
    /\ thinking_mode' = (exc # "none")
    /\ thinking_window_done' = (exc = "none")
    /\ events' = IF exc = "none" THEN evs \o <<Event("thinking", "barrier_set", <<>>, TRUE)>> ELSE evs
    /\ tpc' = IF exc = "none" THEN "done" ELSE "failed"
    /\ texc' = exc

\* the finally block, entered with the events evs and the exception exc
RelayFinally(evs, exc) ==
    /\ thinking_mode' = ModeAfterRelay
    /\ thinking_window_done' = TRUE
    /\ events' = evs \o <<Event("thinking", "barrier_set", <<>>, TRUE)>>
    /\ tpc' = IF exc = "none" THEN "done" ELSE "failed"
    /\ texc' = exc

\* the task runs for the first time, up to the first queue.get()
ThinkStart ==
    /\ tpc = "start"
    /\ deadline' = now + THINKING_DURATION_SECONDS
    /\ emitted' = 0
    /\ fallback_idx' = 0
    /\ prod' = [prod EXCEPT !["thinking"] = "running"]
    /\ tpc' = "get"
    /\ UNCHANGED <<runVars, furhat_client, thinking_window_done, thinking_mode, texc, wake,
                   answerVars, queue, produced, word_count, now, events>>
    /\ UNCHANGED fnVars

\* async for cue in thinking_model.stream(): the next item arrives
ThinkGet ==
    /\ tpc = "get"
    /\ queue["thinking"] # <<>>
    /\ LET item == Head(queue["thinking"]) IN
         /\ queue' = [queue EXCEPT !["thinking"] = Tail(@)]
         /\ CASE item.kind = "none" ->
                   /\ tpc' = "fill"
                   /\ UNCHANGED <<texc, thinking_mode, thinking_window_done, events>>
              [] item.kind = "exc" ->
                   RelayFinally(events, "transport")
              [] item.kind = "clause" ->
                   IF WindowOver(now, emitted)
                   THEN /\ tpc' = "fill"                    \* break
                        /\ UNCHANGED <<texc, thinking_mode, thinking_window_done, events>>
                   ELSE IF ~_is_meaningful_thinking_cue(item.text)
                   THEN /\ tpc' = "get"                     \* continue
                        /\ UNCHANGED <<texc, thinking_mode, thinking_window_done, events>>
                   ELSE \E ok \in SpeakOutcomes :
                          IF ok
                          THEN /\ events' = events \o emit_line("cue", item.text, TRUE)
                               /\ tpc' = "emitted"
                               /\ UNCHANGED <<texc, thinking_mode, thinking_window_done>>
                          ELSE RelayFinally(events \o emit_line("cue", item.text, FALSE), "actuation")
    /\ UNCHANGED <<runVars, furhat_client, deadline, emitted, fallback_idx, wake,
                   answerVars, prod, produced, word_count, now>>
    /\ UNCHANGED fnVars

\* the check after the emission is missing: the pause always follows
RecheckAfterEmit_Skipped(t, e) == FALSE

\* lines 142 and 151: if loop.time() >= deadline or emitted >= MAX_THINKING_CUES: break
RecheckAfterEmit(t, e) == WindowOver(t, e)

\* emit_line has returned: emitted += 1, the check, the pause
ThinkAfterEmit ==
    /\ tpc = "emitted"
    /\ emitted' = emitted + 1
    /\ IF RecheckAfterEmit(now, emitted + 1)
       THEN /\ tpc' = "fill"                                \* break
            /\ wake' = wake
       ELSE /\ tpc' = "sleep"
            /\ wake' = now + THINKING_PAUSE_SECONDS
    /\ UNCHANGED <<runVars, furhat_client, thinking_window_done, thinking_mode, texc, deadline,
                   fallback_idx, answerVars, streamVars, now, events>>
    /\ UNCHANGED fnVars

\* asyncio.sleep(THINKING_PAUSE_SECONDS) returns
ThinkWake ==
    /\ tpc = "sleep"
    /\ now >= wake
    /\ tpc' = "get"
    /\ UNCHANGED <<runVars, furhat_client, thinking_window_done, thinking_mode, texc, deadline,
                   emitted, fallback_idx, wake, answerVars, streamVars, now, events>>
    /\ UNCHANGED fnVars

\* the filler is picked by the number of cues emitted so far
FillerLine_ByEmitted(idx, count) ==
    THINKING_FALLBACK_LINES[(count % Len(THINKING_FALLBACK_LINES)) + 1]

\* line 147: THINKING_FALLBACK_LINES[fallback_idx % len(THINKING_FALLBACK_LINES)],
\* a Python list counting from 0
FillerLine(idx, count) ==
    THINKING_FALLBACK_LINES[(idx % Len(THINKING_FALLBACK_LINES)) + 1]

\* while loop.time() < deadline and emitted < MAX_THINKING_CUES: one filler, or leave
ThinkFill ==
    /\ tpc = "fill"
    /\ IF ~WindowOver(now, emitted)
       THEN LET filler == FillerLine(fallback_idx, emitted) IN
            /\ fallback_idx' = fallback_idx + 1
            /\ \E ok \in SpeakOutcomes :
                 IF ok
                 THEN /\ events' = events \o emit_line("filler", filler, TRUE)
                      /\ tpc' = "filled"
                      /\ UNCHANGED <<texc, thinking_mode, thinking_window_done>>
                 ELSE RelayFinally(events \o emit_line("filler", filler, FALSE), "actuation")
       ELSE /\ RelayFinally(events, "none")
            /\ fallback_idx' = fallback_idx
    /\ UNCHANGED <<runVars, furhat_client, deadline, emitted, wake, answerVars, streamVars, now>>
    /\ UNCHANGED fnVars

\* the filler was emitted: emitted += 1, the check, the pause
ThinkAfterFill ==
    /\ tpc = "filled"
    /\ emitted' = emitted + 1
    /\ IF RecheckAfterEmit(now, emitted + 1)
       THEN /\ RelayFinally(events, "none")                 \* break
            /\ wake' = wake
       ELSE /\ tpc' = "fsleep"
            /\ wake' = now + THINKING_PAUSE_SECONDS
            /\ UNCHANGED <<texc, thinking_mode, thinking_window_done, events>>
    /\ UNCHANGED <<runVars, furhat_client, deadline, fallback_idx, answerVars, streamVars, now>>
    /\ UNCHANGED fnVars

ThinkFillWake ==
    /\ tpc = "fsleep"
    /\ now >= wake
    /\ tpc' = "fill"
    /\ UNCHANGED <<runVars, furhat_client, thinking_window_done, thinking_mode, texc, deadline,
                   emitted, fallback_idx, wake, answerVars, streamVars, now, events>>
    /\ UNCHANGED fnVars

----------------------------------------------------------------------------
(* Orchestrator._relay_answer *)

\* the wait on the barrier is missing
WindowDone_NoWait == TRUE

\* the wait is skipped once the answer fetch is complete
WindowDone_UnlessFetched == thinking_window_done \/ prod["reasoning"] \in {"done", "failed"}

\* await self.thinking_window_done.wait() returns
WindowDone == thinking_window_done

\* lines 183-186 for the clause c under the prefix p
AnswerClauseEvent(p, c) ==
    Event("answer", "clause", IF p # <<>> THEN Strip(Spaced(p, c)) ELSE c, TRUE)

\* async for clause in reasoning_model.stream(): the next item arrives
AnswerGet ==
    /\ apc = "get"
    /\ queue["reasoning"] # <<>>
    /\ LET item == Head(queue["reasoning"]) IN
         /\ queue' = [queue EXCEPT !["reasoning"] = Tail(@)]
         /\ CASE item.kind = "none" ->
                   /\ apc' = "finish"
                   /\ UNCHANGED <<rpc, aexc, clause, answer_parts, events>>
              [] item.kind = "exc" ->
                   /\ apc' = "raised"
                   /\ aexc' = "transport"
                   /\ rpc' = "join"
                   /\ UNCHANGED <<clause, answer_parts, events>>
              [] item.kind = "clause" ->
                   /\ clause' = item.text
                   /\ IF first_clause
                      THEN /\ apc' = "wait"
                           /\ UNCHANGED <<answer_parts, events>>
                      ELSE /\ apc' = "get"
                           /\ answer_parts' = Append(answer_parts, item.text)
                           /\ events' = events \o <<AnswerClauseEvent(prefix, item.text)>>
                   /\ UNCHANGED <<rpc, aexc>>
    /\ UNCHANGED <<rexc, decision, current_answer_text, furhat_client, thinking_window_done,
                   thinking_mode, thinkVars, first_clause, prefix, gesture_description,
                   prod, produced, word_count, now>>
    /\ UNCHANGED fnVars

\* the barrier is open: resolve the tier, announce the handoff, emit the first clause
AnswerHandoff ==
    /\ apc = "wait"
    /\ WindowDone
    /\ LET confidence_level == resolve_confidence(decision.confidence, word_count)
           behavior         == get_confidence_behavior(confidence_level)
       IN  /\ prefix' = behavior[1]
           /\ gesture_description' = behavior[2]
           /\ first_clause' = FALSE
           /\ answer_parts' = Append(answer_parts, clause)
           /\ events' = events \o <<Event("answer", "handoff", <<confidence_level, behavior[2]>>, TRUE),
                                    AnswerClauseEvent(behavior[1], clause)>>
    /\ apc' = "get"
    /\ UNCHANGED <<runVars, furhat_client, thinking_window_done, thinking_mode, thinkVars,
                   aexc, clause, streamVars, now>>
    /\ UNCHANGED fnVars

\* the utterance is the last clause only, as a call per clause would send it
FullAnswer_LastOnly(p, parts) ==
    IF p # <<>> THEN Strip(Spaced(p, parts[Len(parts)])) ELSE parts[Len(parts)]

\* line 190: the prefix and all clauses joined by single spaces
FullAnswer(p, parts) ==
    IF p # <<>> THEN Strip(Spaced(p, JoinSpaced(parts))) ELSE JoinSpaced(parts)

\* the utterance is built and sent whether or not a clause arrived
HasAnswer_Always(parts) == TRUE

\* line 189: if full_answer_parts
HasAnswer(parts) == parts # <<>>

\* the stream has ended: one utterance, one speak call, the gesture line
AnswerFinish ==
    /\ apc = "finish"
    /\ LET full_answer == FullAnswer(prefix, answer_parts)
           gesture     == IF gesture_description # ""
                          THEN <<Event("answer", "gesture", <<gesture_description>>, TRUE)>>
                          ELSE <<>>
       IN  IF HasAnswer(answer_parts)
           THEN /\ current_answer_text' = full_answer
                /\ \E ok \in SpeakOutcomes :
                     IF ok
                     THEN /\ events' = events \o Speak("answer", full_answer, TRUE) \o gesture
                          /\ apc' = "returned"
                          /\ aexc' = aexc
                     ELSE /\ events' = events \o Speak("answer", full_answer, FALSE)
                          /\ apc' = "raised"
                          /\ aexc' = "actuation"
           ELSE /\ events' = events \o gesture
                /\ apc' = "returned"
                /\ UNCHANGED <<current_answer_text, aexc>>
    /\ rpc' = "join"
    /\ UNCHANGED <<rexc, decision, furhat_client, thinking_window_done, thinking_mode, thinkVars,
                   first_clause, prefix, gesture_description, answer_parts, clause,
                   streamVars, now>>
    /\ UNCHANGED fnVars

----------------------------------------------------------------------------
(* ChatGPTSentenceStreamer.stream: the producer thread *)

\* the producer of the answer stream is held while its consumer is not pulling
CanPut_OnlyWhenPulling(s) == s = "reasoning" => apc = "get"

\* lines 209, 214: asyncio.Queue() has no maxsize and put_nowait is scheduled
\* from the producer's own thread, so a put never waits for the consumer
CanPut(s) == TRUE

\* a token arrives that completes a clause: call_soon_threadsafe(queue.put_nowait, clause)
Produce(s) ==
    /\ prod[s] = "running"
    /\ produced[s] < MaxClauses
    /\ CanPut(s)
    /\ queue' = [queue EXCEPT ![s] = Append(@, ClauseItem(StreamClauses[s][produced[s] + 1]))]
    /\ produced' = [produced EXCEPT ![s] = @ + 1]
    /\ word_count' = IF s = "reasoning" THEN WordCountAt[produced[s] + 1] ELSE word_count
    /\ UNCHANGED <<runVars, furhat_client, thinking_window_done, thinking_mode, thinkVars,
                   answerVars, prod, now, events>>
    /\ UNCHANGED fnVars

\* the finally clause is missing: nothing is put when the source is exhausted
EndItems_Missing == << >>

\* what the producer puts when the source is exhausted: finally puts None
EndItems == <<NoneItem>>

\* the source is exhausted: finally puts None
ProducerEnd(s) ==
    /\ prod[s] = "running"
    /\ queue' = [queue EXCEPT ![s] = @ \o EndItems]
    /\ prod' = [prod EXCEPT ![s] = "done"]
    /\ UNCHANGED <<runVars, furhat_client, thinking_window_done, thinking_mode, thinkVars,
                   answerVars, produced, word_count, now, events>>
    /\ UNCHANGED fnVars

\* the exception is swallowed: only the end marker is put
FailureItems_Dropped == <<NoneItem>>

\* lines 215-218: except puts the exception, finally puts None
FailureItems == <<ExcItem, NoneItem>>

\* the source raises
ProducerFail(s) ==
    /\ prod[s] = "running"
    /\ queue' = [queue EXCEPT ![s] = @ \o FailureItems]
    /\ prod' = [prod EXCEPT ![s] = "failed"]
    /\ UNCHANGED <<runVars, furhat_client, thinking_window_done, thinking_mode, thinkVars,
                   answerVars, produced, word_count, now, events>>
    /\ UNCHANGED fnVars

----------------------------------------------------------------------------
(* The clock *)

\* loop.time() is read by _relay_thinking only, and compared only with the end
\* of the current sleep and with the deadline: while the relay runs the clock
\* moves from one of these instants to a later one, or far past the deadline
Instants ==
    (IF tpc \in {"sleep", "fsleep"} THEN {wake} ELSE {}) \cup {deadline, MaxTime}

Tick ==
    /\ tpc \in {"get", "emitted", "sleep", "fill", "filled", "fsleep"}
    /\ \E t \in Instants : t > now /\ now' = t
    /\ UNCHANGED <<runVars, furhat_client, thinking_window_done, thinking_mode, thinkVars,
                   answerVars, streamVars, events>>
    /\ UNCHANGED fnVars

----------------------------------------------------------------------------
Next ==
    \/ DecideFails
    \/ Decide
    \/ _respond_directly
    \/ AwaitThinkingTask
    \/ ThinkStart
    \/ ThinkGet
    \/ ThinkAfterEmit
    \/ ThinkWake
    \/ ThinkFill
    \/ ThinkAfterFill
    \/ ThinkFillWake
    \/ AnswerGet
    \/ AnswerHandoff
    \/ AnswerFinish
    \/ \E s \in Streams : Produce(s)
    \/ \E s \in Streams : ProducerEnd(s)
    \/ \E s \in Streams : ProducerFail(s)
    \/ Tick

Spec == Init /\ [][Next]_vars

\* the scheduler runs every ready task, each producer thread runs until its
\* source ends or fails, and the clock advances
Fairness ==
    /\ WF_vars(AwaitThinkingTask)
    /\ WF_vars(ThinkStart) /\ WF_vars(ThinkGet) /\ WF_vars(ThinkAfterEmit) /\ WF_vars(ThinkWake)
    /\ WF_vars(ThinkFill) /\ WF_vars(ThinkAfterFill) /\ WF_vars(ThinkFillWake)
    /\ WF_vars(AnswerGet) /\ WF_vars(AnswerHandoff) /\ WF_vars(AnswerFinish)
    /\ \A s \in Streams : WF_vars(Produce(s) \/ ProducerEnd(s) \/ ProducerFail(s))
    /\ WF_vars(Tick)

FairSpec == Init /\ [][Next]_vars /\ Fairness

----------------------------------------------------------------------------
(* ChatGPTSentenceStreamer._generate_clauses: one run of the clause segmenter
   on its own; text is a sequence of characters *)

MaxFragments == 3

Chars      == {"a", " ", ".", "?"}
Terminals  == {".", "?", "!"}

\* the non-empty fragments _token_stream may yield (if delta: yield delta)
Fragments == {<<c>> : c \in Chars \cup {"!"}} \cup {<<c, d>> : c \in Chars, d \in Chars}

\* len(text.split())
WordCount(text) ==
    Cardinality({i \in 1..Len(text) : text[i] # " " /\ (i = 1 \/ text[i - 1] = " ")})

\* the span is appended as it is
ReadyClause_Untrimmed(span) == <<span>>

\* lines 285-287: the span trimmed, appended if it is not empty
ReadyClause(span) == IF Strip(span) # <<>> THEN <<Strip(span)>> ELSE <<>>

\* the loop of _pop_ready_clauses from position idx on, start being the first
\* position of the span not yet cut (both count from 1)
RECURSIVE PopScan(_, _, _, _)
PopScan(text, idx, start, clauses) ==
    IF idx > Len(text)
    THEN [clauses |-> clauses, remainder |-> SubSeq(text, start, Len(text))]
    ELSE IF text[idx] \in Terminals
         THEN PopScan(text, idx + 1, idx + 1, clauses \o ReadyClause(SubSeq(text, start, idx)))
         ELSE PopScan(text, idx + 1, start, clauses)

\* the remainder is returned trimmed
_pop_ready_clauses_Stripped(text) ==
    LET r == PopScan(text, 1, 1, <<>>) IN [clauses |-> r.clauses, remainder |-> Strip(r.remainder)]

_pop_ready_clauses(text) == PopScan(text, 1, 1, <<>>)

\* nothing is yielded at the end of the stream
FinalFlush_None(buffer) == <<>>

\* lines 242-243: if buffer.strip(): yield buffer.strip()
FinalFlush(buffer) == IF Strip(buffer) # <<>> THEN <<Strip(buffer)>> ELSE <<>>

SegInit ==
    /\ TurnInit
    /\ furhat_client = FALSE
    /\ ResIdle
    /\ LegIdle
    /\ seg_pc = "streaming"
    /\ seg_text = <<>>
    /\ seg_n = 0
    /\ seg_buffer = <<>>
    /\ seg_clauses = <<>>
    /\ seg_word_count = 0

\* for token in self._token_stream(): one pass of the loop body for the fragment f
SegFeed(f) ==
    /\ seg_pc = "streaming"
    /\ seg_n < MaxFragments
    /\ LET buffer == seg_buffer \o f
           popped == _pop_ready_clauses(buffer)
       IN  /\ seg_word_count' = WordCount(buffer)
           /\ seg_clauses' = seg_clauses \o popped.clauses
           /\ seg_buffer' = popped.remainder
    /\ seg_text' = seg_text \o f
    /\ seg_n' = seg_n + 1
    /\ UNCHANGED <<seg_pc, turnVars, resVars, legVars>>

\* the token stream is exhausted: the trailing piece is flushed
SegFlush ==
    /\ seg_pc = "streaming"
    /\ seg_pc' = "done"
    /\ seg_clauses' = seg_clauses \o FinalFlush(seg_buffer)
    /\ UNCHANGED <<seg_text, seg_n, seg_buffer, seg_word_count, turnVars, resVars, legVars>>

SegNext ==
    \/ \E f \in Fragments : SegFeed(f)
    \/ SegFlush

SegSpec == SegInit /\ [][SegNext]_vars

----------------------------------------------------------------------------
(* BehaviorGenerator.resolve_confidence and main.resolve_confidence: one call
   on its own *)

MaxWordCount == 100

\* the hints a call may be given: None, the empty string, tiers, other strings
ResHints == Hints \cup {"medium", ""}

ResInit ==
    /\ TurnInit
    /\ furhat_client = FALSE
    /\ SegIdle
    /\ LegIdle
    /\ res_pc = "input"
    /\ res_hint \in ResHints
    /\ res_wc \in 0..MaxWordCount
    /\ res_out = "none"

\* the call returns
Resolve ==
    /\ res_pc = "input"
    /\ res_pc' = "resolved"
    /\ res_out' = resolve_confidence(res_hint, res_wc)
    /\ UNCHANGED <<res_hint, res_wc, turnVars, segVars, legVars>>

ResNext == Resolve

ResolveSpec == ResInit /\ [][ResNext]_vars

----------------------------------------------------------------------------
(* main.Orchestrator: the legacy orchestrator, which stops the thinking relay
   by the event stop_thinking and has no barrier, no deadline and no fillers *)

MaxLegacyClauses == 6

LEGACY_MAX_THINKING_CUES == 4

\* the clauses the two streams deliver: the second thinking clause is
\* punctuation only
LegacyClause(s, k) == IF s = "thinking" /\ k = 2 THEN <<".">> ELSE <<"words", ".">>

\* main.is_meaningful_cue
is_meaningful_cue(text) == StripChars(Strip(text), {".", "!", "?", "..."}) # <<>>

LegEvent(src, kind) == [src |-> src, kind |-> kind]

LegInit ==
    /\ TurnInit
    /\ furhat_client = FALSE
    /\ SegIdle
    /\ ResIdle
    /\ leg_rpc = "decide"
    /\ leg_stop = FALSE
    /\ leg_tpc = "idle"
    /\ leg_emitted = 0
    /\ leg_apc = "idle"
    /\ leg_first = TRUE
    /\ leg_gesture = ""
    /\ leg_prod = [s \in Streams |-> "idle"]
    /\ leg_queue = [s \in Streams |-> <<>>]
    /\ leg_produced = [s \in Streams |-> 0]
    /\ leg_events = <<>>

\* controller.decide() raises, and so does run
LegDecideFails ==
    /\ leg_rpc = "decide"
    /\ leg_rpc' = "raised"
    /\ UNCHANGED <<leg_stop, leg_tpc, leg_emitted, leg_apc, leg_first, leg_gesture,
                   leg_prod, leg_queue, leg_produced, leg_events>>
    /\ UNCHANGED <<turnVars, segVars, resVars>>

\* run up to its first suspension point: _respond_directly prints its three
\* lines and run returns, or the thinking task is created and _relay_answer
\* runs up to its first queue.get()
LegDecide ==
    /\ leg_rpc = "decide"
    /\ \E need_thinking \in BOOLEAN :
         IF ~need_thinking
         THEN /\ leg_events' = leg_events \o <<LegEvent("direct", "handoff"),
                                                 LegEvent("direct", "clause"),
                                                 LegEvent("direct", "gesture")>>
              /\ leg_rpc' = "done"
              /\ UNCHANGED <<leg_tpc, leg_apc, leg_prod>>
         ELSE /\ leg_rpc' = "answer"
              /\ leg_tpc' = "start"
              /\ leg_apc' = "get"
              /\ leg_prod' = [leg_prod EXCEPT !["reasoning"] = "running"]
              /\ UNCHANGED leg_events
    /\ UNCHANGED <<leg_stop, leg_emitted, leg_first, leg_gesture, leg_queue, leg_produced>>
    /\ UNCHANGED <<turnVars, segVars, resVars>>

\* the thinking task runs for the first time, up to its first queue.get()
LegThinkStart ==
    /\ leg_tpc = "start"
    /\ leg_tpc' = "get"
    /\ leg_emitted' = 0
    /\ leg_prod' = [leg_prod EXCEPT !["thinking"] = "running"]
    /\ UNCHANGED <<leg_rpc, leg_stop, leg_apc, leg_first, leg_gesture, leg_queue,
                   leg_produced, leg_events>>
    /\ UNCHANGED <<turnVars, segVars, resVars>>

\* the stop signal is never looked at
StopSeen_Never == FALSE

\* line 400: if self.stop_thinking.is_set()
StopSeen == leg_stop

\* async for cue in thinking_model.stream(): the next item arrives, and the
\* loop body runs without a suspension
LegThinkGet ==
    /\ leg_tpc = "get"
    /\ leg_queue["thinking"] # <<>>
    /\ LET item == Head(leg_queue["thinking"]) IN
         /\ leg_queue' = [leg_queue EXCEPT !["thinking"] = Tail(@)]
         /\ CASE item.kind = "none" ->
                   /\ leg_tpc' = "done"
                   /\ UNCHANGED <<leg_emitted, leg_events>>
              [] item.kind = "exc" ->
                   /\ leg_tpc' = "failed"
                   /\ UNCHANGED <<leg_emitted, leg_events>>
              [] item.kind = "clause" ->
                   IF StopSeen
                   THEN /\ leg_tpc' = "done"                       \* break
                        /\ UNCHANGED <<leg_emitted, leg_events>>
                   ELSE IF ~is_meaningful_cue(item.text)
                   THEN UNCHANGED <<leg_tpc, leg_emitted, leg_events>>   \* continue
                   ELSE /\ leg_events' = Append(leg_events, LegEvent("thinking", "cue"))
                        /\ leg_emitted' = leg_emitted + 1
                        /\ leg_tpc' = IF leg_emitted + 1 >= LEGACY_MAX_THINKING_CUES
                                      THEN "done" ELSE "get"
    /\ UNCHANGED <<leg_rpc, leg_stop, leg_apc, leg_first, leg_gesture, leg_prod, leg_produced>>
    /\ UNCHANGED <<turnVars, segVars, resVars>>

\* async for clause in reasoning_model.stream(): the next item arrives; when
\* the relay returns or raises, run enters its finally and sets stop_thinking
LegAnswerGet ==
    /\ leg_apc = "get"
    /\ leg_queue["reasoning"] # <<>>
    /\ LET item == Head(leg_queue["reasoning"]) IN
         /\ leg_queue' = [leg_queue EXCEPT !["reasoning"] = Tail(@)]
         /\ CASE item.kind = "none" ->
                   /\ leg_apc' = "returned"
                   /\ leg_rpc' = "join"
                   /\ leg_stop' = TRUE
                   /\ leg_events' = leg_events \o
                         (IF leg_gesture # "" THEN <<LegEvent("answer", "gesture")>> ELSE <<>>)
                   /\ UNCHANGED <<leg_first, leg_gesture>>
              [] item.kind = "exc" ->
                   /\ leg_apc' = "raised"
                   /\ leg_rpc' = "join"
                   /\ leg_stop' = TRUE
                   /\ UNCHANGED <<leg_first, leg_gesture, leg_events>>
              [] item.kind = "clause" ->
                   /\ IF leg_first
                      THEN /\ leg_stop' = TRUE
                           /\ leg_gesture' = "gesture"
                           /\ leg_first' = FALSE
                           /\ leg_events' = leg_events \o <<LegEvent("answer", "handoff"),
                                                              LegEvent("answer", "clause")>>
                      ELSE /\ leg_events' = Append(leg_events, LegEvent("answer", "clause"))
                           /\ UNCHANGED <<leg_stop, leg_gesture, leg_first>>
                   /\ UNCHANGED <<leg_apc, leg_rpc>>
    /\ UNCHANGED <<leg_tpc, leg_emitted, leg_prod, leg_produced>>
    /\ UNCHANGED <<turnVars, segVars, resVars>>

\* finally: await thinking_task
LegJoin ==
    /\ leg_rpc = "join"
    /\ leg_tpc \in {"done", "failed"}
    /\ leg_rpc' = IF leg_tpc = "failed" \/ leg_apc = "raised" THEN "raised" ELSE "done"
    /\ UNCHANGED <<leg_stop, leg_tpc, leg_emitted, leg_apc, leg_first, leg_gesture,
                   leg_prod, leg_queue, leg_produced, leg_events>>
    /\ UNCHANGED <<turnVars, segVars, resVars>>

\* the producer thread of stream s puts its next clause
LegProduce(s) ==
    /\ leg_prod[s] = "running"
    /\ leg_produced[s] < MaxLegacyClauses
    /\ leg_queue' = [leg_queue EXCEPT ![s] = Append(@, ClauseItem(LegacyClause(s, leg_produced[s] + 1)))]
    /\ leg_produced' = [leg_produced EXCEPT ![s] = @ + 1]
    /\ UNCHANGED <<leg_rpc, leg_stop, leg_tpc, leg_emitted, leg_apc, leg_first, leg_gesture,
                   leg_prod, leg_events>>
    /\ UNCHANGED <<turnVars, segVars, resVars>>

\* its source is exhausted
LegProducerEnd(s) ==
    /\ leg_prod[s] = "running"
    /\ leg_queue' = [leg_queue EXCEPT ![s] = Append(@, NoneItem)]
    /\ leg_prod' = [leg_prod EXCEPT ![s] = "done"]
    /\ UNCHANGED <<leg_rpc, leg_stop, leg_tpc, leg_emitted, leg_apc, leg_first, leg_gesture,
                   leg_produced, leg_events>>
    /\ UNCHANGED <<turnVars, segVars, resVars>>

\* its source raises
LegProducerFail(s) ==
    /\ leg_prod[s] = "running"
    /\ leg_queue' = [leg_queue EXCEPT ![s] = @ \o FailureItems]
    /\ leg_prod' = [leg_prod EXCEPT ![s] = "failed"]
    /\ UNCHANGED <<leg_rpc, leg_stop, leg_tpc, leg_emitted, leg_apc, leg_first, leg_gesture,
                   leg_produced, leg_events>>
    /\ UNCHANGED <<turnVars, segVars, resVars>>

LegNext ==
    \/ LegDecideFails
    \/ LegDecide
    \/ LegThinkStart
    \/ LegThinkGet
    \/ LegAnswerGet
    \/ LegJoin
    \/ \E s \in Streams : LegProduce(s)
    \/ \E s \in Streams : LegProducerEnd(s)
    \/ \E s \in Streams : LegProducerFail(s)

LegacySpec == LegInit /\ [][LegNext]_vars

----------------------------------------------------------------------------
(* Properties *)

EventIdx == 1..Len(events)

IsBarrierSet(e)   == e.src = "thinking" /\ e.kind = "barrier_set"
IsThinkingOut(e)  == e.src = "thinking" /\ e.kind \in {"cue", "filler", "speak"}
IsThinkingCue(e)  == e.src = "thinking" /\ e.kind \in {"cue", "filler"}
IsAnswerOut(e)    == e.src = "answer"
IsSpeak(e)        == e.kind = "speak"

ThinkingTurn  == decision.need_thinking
DirectTurn    == rpc \in {"direct", "done", "raised"} /\ ~decision.need_thinking /\ rexc # "decision"
RunEnded      == rpc \in {"done", "raised"}
ThinkingEnded == tpc \in {"done", "failed"}

\* C1: in a thinking turn the handoff announcement and every clause event of the
\* answer relay come after the thinking relay has set the completion barrier
C1_AnswerAfterBarrier ==
    \A j \in EventIdx :
        (events[j].src = "answer" /\ events[j].kind \in {"handoff", "clause"})
            => \E i \in 1..(j - 1) : IsBarrierSet(events[i])

\* the answer fetch was complete and the thinking stream had delivered no clause,
\* and the handoff has been announced
C1_Witness ==
    /\ \E j \in EventIdx : events[j].src = "answer" /\ events[j].kind = "handoff"
    /\ prod["reasoning"] = "done"
    /\ produced["thinking"] = 0

\* C2: every output event of the thinking relay precedes every output event of
\* the answer relay, and the thinking relay emits nothing after setting the barrier
C2_NoInterleaving ==
    \A i, j \in EventIdx :
        (i < j /\ IsThinkingOut(events[j]))
            => ~IsAnswerOut(events[i]) /\ ~IsBarrierSet(events[i])

\* both relays have produced output in the same turn
C2_Witness ==
    /\ \E i \in EventIdx : IsThinkingCue(events[i])
    /\ \E j \in EventIdx : events[j].src = "answer" /\ events[j].kind = "clause"

\* C3: in a thinking turn the barrier is set by the thinking relay only, exactly
\* once and exactly when the relay ends (normally or with an exception), and it
\* is not cleared after that
C3_BarrierOnce ==
    ThinkingTurn =>
        LET sets == {i \in EventIdx : events[i].kind = "barrier_set"} IN
        /\ \A i \in sets : events[i].src = "thinking"
        /\ Cardinality(sets) = (IF ThinkingEnded THEN 1 ELSE 0)
        /\ thinking_window_done = ThinkingEnded
        /\ \A i \in sets : \A j \in EventIdx : j > i => events[j].kind # "barrier_clear"

\* the relay ended with an exception and the barrier is set
C3_Witness ==
    /\ tpc = "failed"
    /\ thinking_window_done
    /\ \E i \in EventIdx : IsBarrierSet(events[i])

\* C4: every turn that starts the thinking relay eventually returns from run
C4_RunReturns == (tpc # "idle") ~> RunEnded

\* run has returned although the thinking relay failed while the answer relay delivered
C4_Witness ==
    /\ RunEnded
    /\ tpc = "failed"
    /\ answer_parts # <<>>

\* C5: the thinking relay emits at most MAX_THINKING_CUES cues, stream cues and fillers together
C5_CueCap ==
    Cardinality({i \in EventIdx : IsThinkingCue(events[i])}) <= MAX_THINKING_CUES

\* the cap is reached with a stream cue among the cues
C5_Witness ==
    /\ Cardinality({i \in EventIdx : IsThinkingCue(events[i])}) = MAX_THINKING_CUES
    /\ \E i \in EventIdx : events[i].src = "thinking" /\ events[i].kind = "cue"
    /\ \E i \in EventIdx : events[i].src = "thinking" /\ events[i].kind = "filler"

\* C6: the thinking relay sets the barrier at most THINKING_DURATION_SECONDS +
\* THINKING_PAUSE_SECONDS after it started
C6_WithinDeadlinePlusPause ==
    ThinkingEnded => now <= deadline + THINKING_PAUSE_SECONDS

\* C7: run has not returned or raised from a thinking turn while the thinking task is still running
C7_ThinkingJoined ==
    (RunEnded /\ ThinkingTurn) => ThinkingEnded

\* run raised the answer relay's failure after the thinking relay ran to its end
C7_Witness ==
    /\ rpc = "raised"
    /\ aexc = "transport"
    /\ tpc = "done"

\* C8: a transport failure raised by either stream makes run raise, and run
\* raises only after both relays have ended
C8_TransportFatal ==
    /\ (texc = "transport" \/ aexc = "transport") => rpc # "done"
    /\ (RunEnded /\ (texc = "transport" \/ aexc = "transport"))
          => /\ rpc = "raised"
             /\ rexc # "none"
             /\ ThinkingEnded
             /\ apc \in {"returned", "raised"}

\* the thinking stream failed, the answer relay returned normally, run raised
C8_Witness ==
    /\ rpc = "raised"
    /\ texc = "transport"
    /\ apc = "returned"

\* C9: a failed speak call never makes run raise or a relay end with an exception
C9_ActuationFailureCaught ==
    (\E i \in EventIdx : IsSpeak(events[i]) /\ ~events[i].ok)
        => /\ rpc # "raised"
           /\ texc = "none"
           /\ aexc = "none"

DirectTier == IF decision.confidence \in Tiers THEN decision.confidence ELSE "medium"

\* C10 as stated: a direct turn issues exactly one speak call, the tier's prefix
\* followed by the direct answer, and has no thinking relay and no thinking output
C10_DirectExactlyOneCall ==
    (DirectTurn /\ RunEnded) =>
        /\ Cardinality({i \in EventIdx : IsSpeak(events[i])}) = 1
        /\ \A i \in EventIdx :
             IsSpeak(events[i]) =>
                events[i].text = CONFIDENCE_BEHAVIORS[DirectTier][1] \o <<" ">> \o decision.answer
        /\ tpc = "idle"
        /\ \A i \in EventIdx : events[i].src # "thinking"

\* C10 amended: with an actuation client exactly one speak call, without one
\* none; the text is the tier's prefix followed by the stripped answer, or by
\* the apology when the answer is blank; no thinking relay, no thinking output
C10_DirectOneCallIfClient ==
    (DirectTurn /\ RunEnded) =>
        /\ Cardinality({i \in EventIdx : IsSpeak(events[i])}) = (IF furhat_client THEN 1 ELSE 0)
        /\ \A i \in EventIdx :
             IsSpeak(events[i]) =>
                /\ events[i].src = "direct"
                /\ events[i].text =
                     CONFIDENCE_BEHAVIORS[DirectTier][1] \o <<" ">> \o
                        (IF \A k \in 1..Len(decision.answer) : decision.answer[k] = " "
                         THEN APOLOGY ELSE decision.answer)
        /\ tpc = "idle"
        /\ prod = [s \in Streams |-> "idle"]
        /\ \A i \in EventIdx : events[i].src \notin {"thinking", "answer"}

\* a direct turn with a client and a known hint has ended with its one call
C10_Witness ==
    /\ DirectTurn /\ RunEnded
    /\ furhat_client
    /\ decision.confidence = "high"
    /\ \E i \in EventIdx : IsSpeak(events[i]) /\ events[i].ok

IsAnswerSpeak(e) == e.src = "answer" /\ e.kind = "speak"
AnswerCalls      == {i \in EventIdx : IsAnswerSpeak(events[i])}
AnswerClauses    == SubSeq(StreamClauses["reasoning"], 1, produced["reasoning"])
AnswerEnded      == apc = "returned" \/ (apc = "raised" /\ aexc = "actuation")

\* C11 as stated: once the turn is over and the answer stream has produced a
\* clause, the answer relay has issued exactly one speak call
C11_ExactlyOneAnswerCall ==
    (ThinkingTurn /\ RunEnded /\ produced["reasoning"] >= 1) => Cardinality(AnswerCalls) = 1

\* C11 amended: the answer relay issues at most one speak call in a turn; it
\* issues it after the stream has ended and after every clause event, with the
\* announced tier's prefix followed by all clauses of the stream in order; it
\* issues one when the stream ended normally after a clause and a client is
\* attached, and none without a client or after a failure of the stream
C11_OneAnswerCallIfClient ==
    /\ Cardinality(AnswerCalls) <= 1
    /\ \A i \in AnswerCalls :
         /\ furhat_client
         /\ prod["reasoning"] = "done" /\ queue["reasoning"] = <<>>
         /\ produced["reasoning"] >= 1
         /\ Cardinality({j \in EventIdx : events[j].src = "answer" /\ events[j].kind = "clause"})
               = produced["reasoning"]
         /\ \A j \in EventIdx : (events[j].src = "answer" /\ events[j].kind = "clause") => j < i
         /\ \E h \in 1..(i - 1) :
              /\ events[h].src = "answer" /\ events[h].kind = "handoff"
              /\ events[i].text =
                   CONFIDENCE_BEHAVIORS[events[h].text[1]][1] \o <<" ">> \o JoinSpaced(AnswerClauses)
    /\ (AnswerEnded /\ produced["reasoning"] >= 1)
          => Cardinality(AnswerCalls) = (IF furhat_client THEN 1 ELSE 0)
    /\ aexc = "transport" => AnswerCalls = {}

\* the stream gave two clauses and ended, and the one call has been made
C11_Witness ==
    /\ apc = "returned"
    /\ furhat_client
    /\ produced["reasoning"] = 2
    /\ \E i \in AnswerCalls : events[i].ok

\* C12: in a thinking turn, while the answer stream has produced no clause, and so too when it has
\* ended without one, the answer relay has not waited on the barrier, has
\* issued no speak call, announced no handoff, emitted no gesture or clause
\* event and has left current_answer_text as it was
C12_NoClauseNoOutput ==
    (ThinkingTurn /\ produced["reasoning"] = 0) =>
        /\ apc # "wait"
        /\ first_clause
        /\ \A i \in EventIdx : events[i].src # "answer"
        /\ current_answer_text = <<>>
        /\ apc = "raised" => aexc = "transport"

\* the answer stream ended without a clause and the answer relay has returned
C12_Witness ==
    /\ produced["reasoning"] = 0
    /\ prod["reasoning"] = "done"
    /\ apc = "returned"
    /\ rpc = "done"

\* a text with every space removed
RECURSIVE NoSpaces(_)
NoSpaces(text) ==
    IF text = <<>> THEN <<>>
    ELSE IF Head(text) = " " THEN NoSpaces(Tail(text)) ELSE <<Head(text)>> \o NoSpaces(Tail(text))

\* the concatenation of a sequence of texts
RECURSIVE Concat(_)
Concat(parts) == IF parts = <<>> THEN <<>> ELSE Head(parts) \o Concat(Tail(parts))

\* the pieces of a text cut after each terminal character, the trailing piece last
RECURSIVE CutPieces(_, _)
CutPieces(text, piece) ==
    IF text = <<>> THEN <<piece>>
    ELSE IF Head(text) \in Terminals
         THEN <<Append(piece, Head(text))>> \o CutPieces(Tail(text), <<>>)
         ELSE CutPieces(Tail(text), Append(piece, Head(text)))

\* each piece trimmed, the pieces that are empty after trimming dropped
RECURSIVE TrimmedNonEmpty(_)
TrimmedNonEmpty(pieces) ==
    IF pieces = <<>> THEN <<>>
    ELSE (IF Strip(Head(pieces)) # <<>> THEN <<Strip(Head(pieces))>> ELSE <<>>)
            \o TrimmedNonEmpty(Tail(pieces))

SegDone == seg_pc = "done"

\* C13 as stated: at the end of the stream the trimmed concatenation of the
\* clauses equals the trimmed concatenation of the fragments
C13_LosslessTrimmed ==
    SegDone => Strip(Concat(seg_clauses)) = Strip(seg_text)

\* C13 amended: at the end of the stream the concatenation of the clauses and
\* the concatenation of the fragments are equal once whitespace is removed from
\* both, so every other character is kept, in order
C13_LosslessUpToSpaces ==
    SegDone => NoSpaces(Concat(seg_clauses)) = NoSpaces(seg_text)

\* a text of two sentences and a trailing piece has been segmented
C13_Witness ==
    /\ SegDone
    /\ Len(seg_clauses) = 3
    /\ seg_clauses[3] = <<"a">>
    /\ \E i \in 1..Len(seg_text) : seg_text[i] = " "

\* C14 as stated: no emitted clause is empty or made of terminal characters only
C14_NoPunctuationOnlyClause ==
    \A k \in 1..Len(seg_clauses) :
        /\ seg_clauses[k] # <<>>
        /\ \E i \in 1..Len(seg_clauses[k]) : seg_clauses[k][i] \notin Terminals

\* C14 amended: every emitted clause is trimmed and has a character that is
\* not whitespace; it may consist of terminal characters only
C14_NoBlankClause ==
    \A k \in 1..Len(seg_clauses) :
        /\ seg_clauses[k] # <<>>
        /\ Strip(seg_clauses[k]) = seg_clauses[k]
        /\ \E i \in 1..Len(seg_clauses[k]) : seg_clauses[k][i] # " "

\* spans that are blank were cut and dropped, and a clause was emitted
C14_Witness ==
    /\ SegDone
    /\ seg_text = <<" ", ".", " ", "a", "?", " ">>
    /\ seg_clauses = << <<".">>, <<"a", "?">> >>

\* C15: after every fragment the clauses emitted so far are the trimmed
\* non-empty pieces cut from the whole text received, the trailing piece
\* being held back in the buffer; at the end of the stream they are all the
\* trimmed non-empty pieces, whatever the fragmentation was
C15_ClausesAreCutPieces ==
    LET pieces == CutPieces(seg_text, <<>>) IN
    /\ seg_pc = "streaming" =>
          /\ seg_clauses = TrimmedNonEmpty(SubSeq(pieces, 1, Len(pieces) - 1))
          /\ seg_buffer = pieces[Len(pieces)]
    /\ seg_pc = "done" => seg_clauses = TrimmedNonEmpty(pieces)

\* a sentence arrived split over three fragments, the cut inside the second
C15_Witness ==
    /\ SegDone
    /\ seg_n = 3
    /\ seg_text = <<"a", " ", "a", ".", " ", "a">>
    /\ seg_clauses = << <<"a", " ", "a", ".">>, <<"a">> >>

\* C16: after each fragment word_count is the number of words of the whole
\* text received so far
C16_WordCountCumulative ==
    seg_pc # "idle" => seg_word_count = WordCount(seg_text)

Resolved == res_pc = "resolved"

\* C17: a hint that is one of low, medium, high is returned, whatever the word count
C17_HintWins ==
    (Resolved /\ res_hint \in Tiers) => res_out = res_hint

\* the hint low was returned for a word count that alone would give high
C17_Witness ==
    /\ Resolved
    /\ res_hint = "low"
    /\ res_wc >= 60
    /\ res_out = "low"

WordTier(wc) == IF wc < 25 THEN "low" ELSE IF wc < 60 THEN "medium" ELSE "high"

\* C18 as stated: a hint that is absent or is none of low, medium, high gives
\* the tier of the word count, and the result is always a tier
C18_WordsWhenNoTierHint ==
    Resolved =>
        /\ res_hint \notin Tiers => res_out = WordTier(res_wc)
        /\ res_out \in Tiers

\* C18 amended: a hint that is absent, empty or no tier even after trimming
\* and lower-casing gives the tier of the word count; a hint that is a tier
\* after trimming and lower-casing gives that tier; the result is always a tier
C18_WordsWhenNoNormalisedTierHint ==
    Resolved =>
        /\ (res_hint \in {NoHint, ""} \/ StripLower(res_hint) \notin Tiers)
              => res_out = WordTier(res_wc)
        /\ (res_hint \notin {NoHint, ""} /\ StripLower(res_hint) \in Tiers)
              => res_out = StripLower(res_hint)
        /\ res_out \in Tiers

\* an unknown hint with a word count on the upper threshold gave high
C18_Witness ==
    /\ Resolved
    /\ res_hint = "certain"
    /\ res_wc = 60
    /\ res_out = "high"

\* the texts of the clauses waiting in the channel of stream s, in order
QueuedClauses(s) ==
    LET q == SelectSeq(queue[s], LAMBDA it : it.kind = "clause")
    IN  [k \in 1..Len(q) |-> q[k].text]

\* the clauses the answer relay has received from stream()
DeliveredAnswer == answer_parts \o (IF apc = "wait" THEN <<clause>> ELSE <<>>)

\* C19: in a channel the end marker is last and an exception comes right
\* before it, after every clause; the clauses the answer relay has received,
\* followed by those waiting, are the clauses produced, in order; an exception
\* raised in a consumer comes after all clauses produced; and after a failure
\* of the producer the answer relay never ends normally: once it has read the
\* exception it has raised, and the exception is still ahead of a thinking
\* relay that reads on
C19_OrderedAndFailureRaised ==
    /\ \A s \in Streams : \A k \in 1..Len(queue[s]) :
         /\ queue[s][k].kind = "none" => k = Len(queue[s])
         /\ queue[s][k].kind = "exc" => k = Len(queue[s]) - 1
    /\ ThinkingTurn =>
         DeliveredAnswer \o QueuedClauses("reasoning")
            = SubSeq(StreamClauses["reasoning"], 1, produced["reasoning"])
    /\ aexc = "transport" =>
         /\ prod["reasoning"] = "failed"
         /\ answer_parts = SubSeq(StreamClauses["reasoning"], 1, produced["reasoning"])
    /\ texc = "transport" => prod["thinking"] = "failed" /\ QueuedClauses("thinking") = <<>>
    /\ prod["reasoning"] = "failed" =>
         /\ apc \notin {"finish", "returned"} /\ aexc # "actuation"
         /\ (\A k \in 1..Len(queue["reasoning"]) : queue["reasoning"][k].kind # "exc")
               => aexc = "transport"
    /\ (prod["thinking"] = "failed" /\ tpc = "get")
         => \E k \in 1..Len(queue["thinking"]) : queue["thinking"][k].kind = "exc"

\* the answer stream failed after two clauses; both were received, then the exception
C19_Witness ==
    /\ aexc = "transport"
    /\ produced["reasoning"] = 2
    /\ Len(answer_parts) = 2

IsDecide(e) == e.src = "run" /\ e.kind = "decide"

\* C20: the decision request is made at most once in a turn; when it fails,
\* run has raised, the failed request is the only thing that happened: no
\* output event, no speak call, no barrier operation, no stream started, no
\* relay started, nothing stored
C20_DecisionFailureAborts ==
    /\ Cardinality({i \in EventIdx : IsDecide(events[i])}) <= 1
    /\ (\E i \in EventIdx : IsDecide(events[i]) /\ ~events[i].ok) =>
         /\ rpc = "raised" /\ rexc = "decision"
         /\ Len(events) = 1
         /\ decision = NoDecision
         /\ tpc = "idle" /\ apc = "idle"
         /\ prod = [s \in Streams |-> "idle"]
         /\ queue = [s \in Streams |-> <<>>]
         /\ ~thinking_mode /\ ~thinking_window_done
         /\ current_answer_text = <<>>

\* the Decision Service answered with a body that is not JSON and run has raised
C20_Witness ==
    /\ rpc = "raised"
    /\ rexc = "decision"
    /\ \E i \in EventIdx : IsDecide(events[i]) /\ events[i].text = <<"invalid_json">>

\* the filler lines printed so far, in order
Fillers == SelectSeq(events, LAMBDA e : e.src = "thinking" /\ e.kind = "filler")

\* the cues of the thinking stream printed so far, in order
StreamCues == SelectSeq(events, LAMBDA e : e.src = "thinking" /\ e.kind = "cue")

C22_ConcurrentFetch ==
    /\ (\E i \in EventIdx : events[i].src \in {"thinking", "answer"})
          => \A s \in Streams : prod[s] # "idle"
    /\ (apc = "wait" /\ prod["reasoning"] = "running") =>
          /\ produced["reasoning"] < MaxClauses => ENABLED Produce("reasoning")
          /\ ENABLED ProducerEnd("reasoning")

\* the answer relay holds the first clause and waits on the barrier, the next
\* clause is already in the channel, and nothing has been output yet
C22_Witness ==
    /\ apc = "wait"
    /\ ~thinking_window_done
    /\ produced["reasoning"] = 2
    /\ QueuedClauses("reasoning") = <<StreamClauses["reasoning"][2]>>
    /\ \A i \in EventIdx : events[i].src = "run"

\* a text of whitespace and punctuation only, the empty text included
PunctuationOnly(text) == \A k \in 1..Len(text) : text[k] \in {" ", ".", "!", "?", "..."}

\* the thinking relay takes a clause that is punctuation only while its window is open
SkipsClause ==
    /\ tpc = "get"
    /\ queue["thinking"] # <<>>
    /\ queue'["thinking"] = Tail(queue["thinking"])
    /\ Head(queue["thinking"]).kind = "clause"
    /\ PunctuationOnly(Head(queue["thinking"]).text)
    /\ now < deadline /\ emitted < MAX_THINKING_CUES

\* what C23 says of the states: every stream cue printed has something left
\* after whitespace and '.', '!', '?' are trimmed, and emitted counts the cues
\* and fillers printed (less the one whose emission is still under way or raised)
C23_CuesMeaningful ==
    /\ \A k \in 1..Len(StreamCues) :
         StripChars(Strip(StreamCues[k].text), {".", "!", "?"}) # <<>>
    /\ tpc # "idle" =>
         emitted = Len(StreamCues) + Len(Fillers)
                     - (IF tpc \in {"emitted", "filled"} \/ texc = "actuation" THEN 1 ELSE 0)

\* C23: every cue emitted from the thinking stream is non-empty after trimming
\* whitespace and terminal punctuation, and a punctuation-only clause is
\* skipped: no event, no count toward the cap, no pause, the relay takes the
\* next item
C23_SkipsPunctuationOnly ==
    /\ []C23_CuesMeaningful
    /\ [][SkipsClause => /\ events' = events
                          /\ emitted' = emitted
                          /\ wake' = wake
                          /\ tpc' = "get"]_vars

\* the second clause, "...", was taken and skipped: one cue, one counted,
\* and the relay is reading again
C23_Witness ==
    /\ tpc = "get"
    /\ produced["thinking"] = 2
    /\ queue["thinking"] = <<>>
    /\ Len(StreamCues) = 1
    /\ emitted = 1

\* C24: the number of items pushed into a channel and not yet pulled stays
\* within a capacity smaller than the number of items its stream can deliver
C24_ChannelBounded ==
    \A s \in Streams : Len(queue[s]) <= MaxClauses

\* the turn state of the specification, read off the position of run; a run
\* that has raised has ended its turn
TurnState ==
    CASE rpc = "decide"             -> "Deciding"
      [] rpc = "direct"             -> "DirectAnswer"
      [] rpc \in {"answer", "join"} -> "ThinkingAndAnswering"
      [] OTHER                      -> "Done"

TurnMoves ==
    { <<"Deciding", "DirectAnswer">>, <<"Deciding", "ThinkingAndAnswering">>,
      <<"Deciding", "Done">>, <<"DirectAnswer", "Done">>, <<"ThinkingAndAnswering", "Done">> }

\* what C25 says of the states: the branch is the one the plan names, the
\* direct branch starts no relay, and a thinking turn is over only with both
\* relays ended
C25_BranchByPlan ==
    /\ TurnState = "DirectAnswer" => ~decision.need_thinking /\ tpc = "idle" /\ apc = "idle"
    /\ TurnState = "ThinkingAndAnswering" => decision.need_thinking
    /\ (TurnState = "Done" /\ rexc # "decision") =>
         IF decision.need_thinking
         THEN tpc \in {"done", "failed"} /\ apc \in {"returned", "raised"}
         ELSE tpc = "idle" /\ apc = "idle"
    /\ (TurnState = "Done" /\ rexc = "decision") => Len(events) = 1

\* C25: the turn state only moves forward: from Deciding to one of the two
\* branches, chosen by need_thinking, or to the end when the decision fails,
\* from a branch to Done, and nowhere from Done; Done is reached from
\* ThinkingAndAnswering only with both relays ended
C25_TurnLinear ==
    /\ []C25_BranchByPlan
    /\ [][TurnState' # TurnState => <<TurnState, TurnState'>> \in TurnMoves]_vars
    /\ [][(TurnState = "Deciding" /\ TurnState' \in {"DirectAnswer", "ThinkingAndAnswering"})
            => (TurnState' = "ThinkingAndAnswering") = decision'.need_thinking]_vars

\* a thinking turn is Done, both relays having ended without an exception
C25_Witness ==
    /\ TurnState = "Done"
    /\ rpc = "done"
    /\ decision.need_thinking
    /\ tpc = "done"
    /\ apc = "returned"

\* C26: the tier announced by the direct path is the one the resolver gives
\* for a hint it accepts as a tier, and medium for any other hint
C26_DirectTierAgreesWithResolver ==
    \A i \in EventIdx :
        (events[i].src = "direct" /\ events[i].kind = "handoff") =>
            events[i].text[1] =
                (IF decision.confidence \notin {NoHint, ""} /\ StripLower(decision.confidence) \in Tiers
                 THEN resolve_confidence(decision.confidence, 0)
                 ELSE "medium")

LegIdx == 1..Len(leg_events)

LegCues == {i \in LegIdx : leg_events[i].src = "thinking"}

\* C27: in the legacy orchestrator stop_thinking is set once the answer relay
\* has its first clause, no thinking cue is printed while stop_thinking is
\* set, at most MAX_THINKING_CUES (4) cues are printed, and no thinking cue
\* comes after a line of the answer relay
C27_LegacyStopBetweenCues ==
    /\ [](/\ (\E i \in LegIdx : leg_events[i].src = "answer") => leg_stop
          /\ ~leg_first => leg_stop
          /\ Cardinality(LegCues) <= 4
          /\ Cardinality(LegCues) = leg_emitted
          /\ \A i, j \in LegIdx :
               (i < j /\ leg_events[i].src = "answer") => leg_events[j].src # "thinking")
    /\ [][leg_stop => leg_emitted' = leg_emitted /\ LegCues' = LegCues]_vars

\* the thinking relay printed three cues, then the first answer clause set
\* stop_thinking, and the relay left its loop on the next cue it was given
C27_Witness ==
    /\ leg_stop
    /\ leg_tpc = "done"
    /\ leg_emitted = 3
    /\ leg_prod["thinking"] = "running"
    /\ \E i \in LegIdx : leg_events[i].src = "answer" /\ leg_events[i].kind = "clause"

\* the thinking relay starts an emission: a cue or a filler line is printed
StartsEmission ==
    /\ Len(StreamCues') + Len(Fillers') > Len(StreamCues) + Len(Fillers)

\* the thinking relay starts an inter-cue pause
StartsPause == tpc' \in {"sleep", "fsleep"} /\ tpc \notin {"sleep", "fsleep"}

\* C28: the thinking relay starts an emission only before its deadline and
\* below the cap, and starts a pause only when, the emission over and
\* counted, the deadline has not come and the cap is not reached
C28_RecheckedAroundEmission ==
    /\ [][StartsEmission => now < deadline /\ emitted < MAX_THINKING_CUES]_vars
    /\ [][StartsPause => /\ now < deadline /\ emitted' < MAX_THINKING_CUES
                          /\ wake' = now + THINKING_PAUSE_SECONDS]_vars
    /\ [](tpc \in {"sleep", "fsleep"} =>
            wake < deadline + THINKING_PAUSE_SECONDS /\ emitted < MAX_THINKING_CUES)

\* the deadline came during an emission: the relay ended without a pause,
\* below the cap
C28_Witness ==
    /\ tpc = "done"
    /\ texc = "none"
    /\ now >= deadline
    /\ emitted >= 1
    /\ emitted < MAX_THINKING_CUES
    /\ wake + THINKING_PAUSE_SECONDS <= deadline

\* a thinking turn without a hint and without an actuation client, whose
\* answer stream gave two clauses and ended and whose thinking stream gave one
\* clause and ended
FixedPlanAndStreams ==
    /\ ~furhat_client
    /\ decision.need_thinking
    /\ decision.confidence = NoHint
    /\ prod = [s \in Streams |-> "done"]
    /\ produced = [s \in Streams |-> IF s = "reasoning" THEN 2 ELSE 1]

HandoffTiers == {events[i].text[1] : i \in {j \in EventIdx : events[j].src = "answer" /\ events[j].kind = "handoff"}}

\* C29: for that plan and those streams the tier announced at the handoff is
\* one and the same in every run: the tier of the word count at the first
\* clause, which is the one announced when the relay is not kept waiting
C29_HandoffTierFixed ==
    FixedPlanAndStreams => HandoffTiers \subseteq {_estimate_confidence_from_words(WordCountAt[1])}

\* C30: the thinking-mode flag is set exactly while a thinking turn's thinking
\* relay has not ended: never in a direct turn, never together with the
\* completion barrier, and never once run has returned or raised after
\* starting the thinking relay
C30_ThinkingModeFlag ==
    /\ thinking_mode = (decision.need_thinking /\ tpc \notin {"done", "failed"})
    /\ ~decision.need_thinking => ~thinking_mode
    /\ (decision.need_thinking /\ thinking_window_done) => ~thinking_mode
    /\ (RunEnded /\ tpc # "idle") => ~thinking_mode

\* the thinking relay ended with an exception, run has raised, the flag is down
C30_Witness ==
    /\ rpc = "raised"
    /\ tpc = "failed"
    /\ thinking_window_done
    /\ ~thinking_mode

\* C31: the producer of a stream puts the end marker exactly once and as its
\* last item, when the source is exhausted and after a captured failure alike
\* (a producer that has stopped puts nothing more and never restarts; the step
\* that stops it appends items of which the marker is the last and the only
\* one); so once a producer has ended or failed, the answer relay, which keeps
\* pulling, reaches the end of the stream or the failure, and a relay at its
\* pull never finds the channel of a stopped producer empty
ProducerStopped(s) == prod[s] \in {"done", "failed"}

Pulling(s) == IF s = "thinking" THEN tpc = "get" ELSE apc = "get"

Markers(q) == Cardinality({k \in 1..Len(q) : q[k].kind = "none"})

PutBy(s) == SubSeq(queue'[s], Len(queue[s]) + 1, Len(queue'[s]))

MarkerOnceAndLast(s) ==
    /\ ProducerStopped(s) =>
           /\ prod'[s] = prod[s]
           /\ \/ queue'[s] = queue[s]
              \/ queue[s] # << >> /\ queue'[s] = Tail(queue[s])
    /\ (~ProducerStopped(s) /\ ProducerStopped(s)') =>
           /\ Len(queue'[s]) > Len(queue[s])
           /\ SubSeq(queue'[s], 1, Len(queue[s])) = queue[s]
           /\ Markers(PutBy(s)) = 1
           /\ PutBy(s)[Len(PutBy(s))].kind = "none"
           /\ (prod'[s] = "failed") =>
                  /\ Len(PutBy(s)) = 2
                  /\ PutBy(s)[1].kind = "exc"
    /\ (~ProducerStopped(s) /\ ~ProducerStopped(s)') =>
           Markers(queue'[s]) = 0

C31_MarkerOnceAndConsumerReleased ==
    /\ [][\A s \in Streams : MarkerOnceAndLast(s)]_vars
    /\ (ProducerStopped("reasoning") /\ apc \in {"get", "wait"})
           ~> (apc \in {"finish", "returned", "raised"})
    /\ [](\A s \in Streams :
             (ProducerStopped(s) /\ Pulling(s)) => queue[s] # << >>)

C31_Witness ==
    /\ prod["thinking"] = "done" /\ prod["reasoning"] = "done"
    /\ produced["thinking"] = MaxClauses /\ produced["reasoning"] = MaxClauses
    /\ queue["thinking"] = << >> /\ queue["reasoning"] = << >>
    /\ apc = "returned"
    /\ tpc \notin {"start", "get"}

====
